---- MODULE Spec2Model ----
(***************************************************************************)
(* A model of maze_solver.py: the grid (self.maze), the start/end markers, *)
(* the click handlers, the random wall generator, Reset, Solve, and the    *)
(* shortest-path search (MazeSolverApp.dijkstra).                          *)
(*                                                                         *)
(* Spec      the application: one action per event handler.  The wall      *)
(*           generator's while loop is modelled one iteration per step,    *)
(*           because it is the one loop of the program that need not end.  *)
(* SpecFP    dijkstra alone, called on every grid and every in-bounds      *)
(*           start and end, one loop iteration per step.                   *)
(* FairSpec  Spec with the fairness the random number generator gives.     *)
(***************************************************************************)
EXTENDS Integers, Sequences, FiniteSets, TLC

VARIABLES
    maze,          \* self.maze: cell -> 0 (open) or 1 (wall)
    start,         \* self.start: None or <<row, col>>
    end,           \* self.end: None or <<row, col>>
    pc,            \* "idle": in mainloop; "gen": inside generate_random_walls;
                   \* "dijkstra": inside a call of dijkstra (SpecFP)
    placed,        \* the local `placed` of generate_random_walls
    maze_at_call,  \* self.maze as it was when generate_random_walls was called
    out,           \* what the last handled event reported (dialog or path)
    frame          \* the locals of the running dijkstra call (SpecFP)

vars == <<maze, start, end, pc, placed, maze_at_call, out, frame>>

----------------------------------------------------------------------------
(* Grid dimensions and constants                                           *)

ROWS == 2
COLS == 2
CELL_SIZE == 35

\* density=0.25 of generate_random_walls, as a fraction
DENSITY_NUM == 1
DENSITY_DEN == 4

None == <<>>
INF == -1          \* float('inf'): compared only through Less

Cells == (0 .. ROWS - 1) \X (0 .. COLS - 1)

\* [[0 for _ in range(COLS)] for _ in range(ROWS)]
EmptyMaze == [c \in Cells |-> 0]

\* pixel coordinates a click on the canvas can carry (the canvas is
\* COLS*CELL_SIZE by ROWS*CELL_SIZE): one pixel in every cell, running from
\* the first pixel of the first cell to the last pixel of the last cell
ClickX == {c * CELL_SIZE + (c * (CELL_SIZE - 1)) \div (COLS - 1) : c \in 0 .. COLS - 1}
ClickY == {r * CELL_SIZE + (r * (CELL_SIZE - 1)) \div (ROWS - 1) : r \in 0 .. ROWS - 1}

\* row, col = event.y // CELL_SIZE, event.x // CELL_SIZE
EventCell(ex, ey) == <<ey \div CELL_SIZE, ex \div CELL_SIZE>>

\* pixel coordinates of a click outside the canvas as well: one pixel before
\* its first and one after its last (a button pressed while another is held
\* and the pointer has left the canvas, or a generated event)
ClickXAny == ClickX \cup {-1, COLS * CELL_SIZE}
ClickYAny == ClickY \cup {-1, ROWS * CELL_SIZE}

\* i indexes a Python list of length n without IndexError
InRange(i, n) == -n <= i /\ i < n

\* the position a Python list index addresses: a negative one counts from the end
Wrap(i, n) == IF i < 0 THEN i + n ELSE i

\* self.maze[row][col] and self.rects[row][col] raise no IndexError
Indexable(c) == InRange(c[1], ROWS) /\ InRange(c[2], COLS)

\* the cell self.maze[row][col] addresses
ListCell(c) == <<Wrap(c[1], ROWS), Wrap(c[2], COLS)>>

\* wall_count = int(ROWS * COLS * density)
wall_count == (ROWS * COLS * DENSITY_NUM) \div DENSITY_DEN

NoOut == [kind |-> "none", path |-> <<>>]
\* the handler ended in an exception (Tk prints the traceback and goes on)
ExcOut == [kind |-> "exception", path |-> <<>>]
NoFrame == [pc |-> "none"]

----------------------------------------------------------------------------
(* dijkstra                                                                *)

\* the comparison of new_dist with dist[nx][ny] written <= for <
Less_OrEqual(a, b) == IF b = INF THEN TRUE ELSE a <= b

\* a < b where b may be float('inf') and a is finite
Less(a, b) == IF b = INF THEN TRUE ELSE a < b

\* directions with its third entry mistyped
directions_typo == << <<-1, 0>>, <<1, 0>>, <<0, 1>>, <<0, 1>> >>

directions == << <<-1, 0>>, <<1, 0>>, <<0, -1>>, <<0, 1>> >>

\* the neighbour test without `maze[nx][ny] == 0`
CanEnter_NoWallTest(m, n) == n \in Cells

\* 0 <= nx < rows and 0 <= ny < cols and maze[nx][ny] == 0
CanEnter(m, n) == n \in Cells /\ m[n] = 0

\* Python's order on the tuples (d, (x, y)) kept in pq
TupleLess(a, b) ==
    \/ a[1] < b[1]
    \/ /\ a[1] = b[1]
       /\ \/ a[2][1] < b[2][1]
          \/ a[2][1] = b[2][1] /\ a[2][2] < b[2][2]

\* a plain list used as a stack in place of the heap: the last entry is popped
HeapMinIndex_Lifo(q) == Len(q)

\* heapq.heappop: the position of the least entry of pq
HeapMinIndex(q) ==
    CHOOSE i \in 1 .. Len(q) :
        \A j \in 1 .. Len(q) :
            j # i => (TupleLess(q[i], q[j]) \/ (q[i] = q[j] /\ i < j))

HeapRemove(q, i) == SubSeq(q, 1, i - 1) \o SubSeq(q, i + 1, Len(q))

\* the relaxation recording new_dist + 1 in dist
RelaxOne_DistOff(m, f, k) ==
    LET n == <<f.xy[1] + directions[k][1], f.xy[2] + directions[k][2]>>
        new_dist == f.d + 1
    IN  IF CanEnter(m, n) /\ Less(new_dist, f.dist[n])
        THEN [f EXCEPT !.dist[n] = new_dist + 1,
                       !.prev[n] = f.xy,
                       !.pq = Append(f.pq, <<new_dist, n>>),
                       !.pushed[n] = @ + 1]
        ELSE f

\* the body of `for dx, dy in directions`, for direction k, on the locals f
RelaxOne(m, f, k) ==
    LET n == <<f.xy[1] + directions[k][1], f.xy[2] + directions[k][2]>>
        new_dist == f.d + 1
    IN  IF CanEnter(m, n) /\ Less(new_dist, f.dist[n])
        THEN [f EXCEPT !.dist[n] = new_dist,
                       !.prev[n] = f.xy,
                       !.pq = Append(f.pq, <<new_dist, n>>),
                       !.pushed[n] = @ + 1]
        ELSE f

RECURSIVE RelaxAll(_, _, _)
\* `for dx, dy in directions`: directions k .. 4 in turn
RelaxAll(m, f, k) ==
    IF k > Len(directions) THEN f ELSE RelaxAll(m, RelaxOne(m, f, k), k + 1)

\* dijkstra without `dist[start[0]][start[1]] = 0`
DijkstraEnter_NoStartDist(m, s, e) ==
    [pc   |-> "while",
     dist |-> [c \in Cells |-> INF],
     prev |-> [c \in Cells |-> None],
     pq   |-> << <<0, s>> >>,
     d    |-> 0,
     xy   |-> None,
     path |-> <<>>,
     ret  |-> None,
     pops |-> 0,
     pushed |-> [c \in Cells |-> IF c = s THEN 1 ELSE 0]]

\* the locals of dijkstra before its while loop; pops and pushed count the
\* heappop calls made and the entries pushed for each cell
DijkstraEnter(m, s, e) ==
    [pc   |-> "while",
     dist |-> [c \in Cells |-> IF c = s THEN 0 ELSE INF],
     prev |-> [c \in Cells |-> None],
     pq   |-> << <<0, s>> >>,
     d    |-> 0,
     xy   |-> None,
     path |-> <<>>,
     ret  |-> None,
     pops |-> 0,
     pushed |-> [c \in Cells |-> IF c = s THEN 1 ELSE 0]]

\* one evaluation of `while pq:` with the body it guards
WhileStep(m, s, e, f) ==
    IF f.pq = <<>>
    THEN [f EXCEPT !.pc = "after"]
    ELSE LET i == HeapMinIndex(f.pq)
             g == [f EXCEPT !.d = f.pq[i][1], !.xy = f.pq[i][2],
                            !.pq = HeapRemove(f.pq, i), !.pops = @ + 1]
         IN  IF g.xy = e
             THEN [g EXCEPT !.pc = "after"]
             ELSE RelaxAll(m, g, 1)

\* path = []; x, y = end; if dist[x][y] == float('inf'): return None
AfterWhile(m, s, e, f) ==
    IF f.dist[e] = INF
    THEN [f EXCEPT !.xy = e, !.path = <<>>, !.pc = "returned", !.ret = None]
    ELSE [f EXCEPT !.xy = e, !.path = <<>>, !.pc = "walk"]

\* path.reverse() left out
Reverse_Forgotten(p) == p

Reverse(p) == [i \in 1 .. Len(p) |-> p[Len(p) + 1 - i]]

\* the reconstruction without `path.append(start)`
WalkStep_NoStart(m, s, e, f) ==
    IF f.xy # s
    THEN [f EXCEPT !.path = Append(f.path, f.xy), !.xy = f.prev[f.xy]]
    ELSE LET p == Reverse(f.path)
         IN  [f EXCEPT !.path = p, !.pc = "returned", !.ret = p]

\* one evaluation of `while (x, y) != start:` with its body, or what follows
WalkStep(m, s, e, f) ==
    IF f.xy # s
    THEN [f EXCEPT !.path = Append(f.path, f.xy), !.xy = f.prev[f.xy]]
    ELSE LET p == Reverse(Append(f.path, s))
         IN  [f EXCEPT !.path = p, !.pc = "returned", !.ret = p]

DijkstraStep(m, s, e, f) ==
    CASE f.pc = "while" -> WhileStep(m, s, e, f)
      [] f.pc = "after" -> AfterWhile(m, s, e, f)
      [] f.pc = "walk"  -> WalkStep(m, s, e, f)

RECURSIVE DijkstraRun(_, _, _, _)
DijkstraRun(m, s, e, f) ==
    IF f.pc = "returned" THEN f ELSE DijkstraRun(m, s, e, DijkstraStep(m, s, e, f))

\* dijkstra(maze, start, end): None or the path
dijkstra(m, s, e) == DijkstraRun(m, s, e, DijkstraEnter(m, s, e)).ret

----------------------------------------------------------------------------
(* The application                                                         *)

Init ==
    /\ maze = EmptyMaze
    /\ start = None
    /\ end = None
    /\ pc = "idle"
    /\ placed = 0
    /\ maze_at_call = EmptyMaze
    /\ out = NoOut
    /\ frame = NoFrame

\* the test of left_click without its comparison with self.start
CanWall_NoStartTest(m, s, e, c) == m[ListCell(c)] = 0 /\ c # e

\* the test of left_click
CanWall(m, s, e, c) == m[ListCell(c)] = 0 /\ c # s /\ c # e

\* (self.maze[row][col] is read first: an index out of range ends the handler)
left_click(ex, ey) ==
    LET c == EventCell(ex, ey)
    IN  /\ pc = "idle"
        /\ IF Indexable(c) /\ CanWall(maze, start, end, c)
           THEN maze' = [maze EXCEPT ![ListCell(c)] = 1]
           ELSE UNCHANGED maze
        /\ out' = IF Indexable(c) THEN NoOut ELSE ExcOut
        /\ UNCHANGED <<start, end, pc, placed, maze_at_call, frame>>

\* right_click calling generate_random_walls after End as well
right_click_regen(ex, ey) ==
    LET c == EventCell(ex, ey)
    IN  /\ pc = "idle"
        /\ IF start = None
           THEN /\ start' = c
                /\ pc' = "gen"
                /\ placed' = 0
                /\ maze_at_call' = maze
                /\ UNCHANGED end
           ELSE IF end = None
           THEN /\ end' = IF c = start THEN end ELSE c
                /\ pc' = IF c = start THEN pc ELSE "gen"
                /\ placed' = 0
                /\ maze_at_call' = maze
                /\ UNCHANGED start
           ELSE UNCHANGED <<start, end, pc, placed, maze_at_call>>
        /\ out' = NoOut
        /\ UNCHANGED <<maze, frame>>

\* right_click without `if (row, col) == self.start: return`
right_click_EndOnStart(ex, ey) ==
    LET c == EventCell(ex, ey)
    IN  /\ pc = "idle"
        /\ IF start = None
           THEN /\ start' = c
                /\ pc' = "gen"
                /\ placed' = 0
                /\ maze_at_call' = maze
                /\ UNCHANGED end
           ELSE IF end = None
           THEN /\ end' = c
                /\ UNCHANGED <<start, pc, placed, maze_at_call>>
           ELSE UNCHANGED <<start, end, pc, placed, maze_at_call>>
        /\ out' = NoOut
        /\ UNCHANGED <<maze, frame>>

\* right_click with a third branch that moves End once both markers are set
right_click_MoveEnd(ex, ey) ==
    LET c == EventCell(ex, ey)
    IN  /\ pc = "idle"
        /\ IF start = None
           THEN /\ start' = c
                /\ pc' = "gen"
                /\ placed' = 0
                /\ maze_at_call' = maze
                /\ UNCHANGED end
           ELSE IF end = None
           THEN /\ end' = IF c = start THEN end ELSE c
                /\ UNCHANGED <<start, pc, placed, maze_at_call>>
           ELSE /\ end' = IF c = start THEN end ELSE c
                /\ UNCHANGED <<start, pc, placed, maze_at_call>>
        /\ out' = NoOut
        /\ UNCHANGED <<maze, frame>>

\* right_click up to its call of generate_random_walls, whose loop runs
\* in GenIter and GenReturn before any other event is handled
\* (the marker is assigned before self.rects[row][col] is read: an index out
\* of range ends the handler after the assignment and before the generator)
right_click(ex, ey) ==
    LET c == EventCell(ex, ey)
    IN  /\ pc = "idle"
        /\ IF start = None
           THEN /\ start' = c
                /\ IF Indexable(c)
                   THEN pc' = "gen" /\ placed' = 0 /\ maze_at_call' = maze /\ out' = NoOut
                   ELSE UNCHANGED <<pc, placed, maze_at_call>> /\ out' = ExcOut
                /\ UNCHANGED end
           ELSE IF end = None
           THEN /\ end' = IF c = start THEN end ELSE c
                /\ out' = IF c # start /\ ~Indexable(c) THEN ExcOut ELSE NoOut
                /\ UNCHANGED <<start, pc, placed, maze_at_call>>
           ELSE UNCHANGED <<start, end, pc, placed, maze_at_call>> /\ out' = NoOut
        /\ UNCHANGED <<maze, frame>>

\* the test of generate_random_walls without `self.maze[r][c] == 0`
CanPlace_NoOpenTest(m, s, e, c) == c # s /\ c # e

\* the test of generate_random_walls
CanPlace(m, s, e, c) == c # s /\ c # e /\ m[c] = 0

\* one iteration of `while placed < wall_count` with the cell <<r, c>> drawn
\* (a rejected draw changes no variable: the loop spinning on rejected draws
\* is a behaviour that stays in one state)
GenIter(r, c) ==
    /\ pc = "gen"
    /\ placed < wall_count
    /\ IF CanPlace(maze, start, end, <<r, c>>)
       THEN /\ maze' = [maze EXCEPT ![<<r, c>>] = 1]
            /\ placed' = placed + 1
       ELSE UNCHANGED <<maze, placed>>
    /\ UNCHANGED <<start, end, pc, maze_at_call, out, frame>>

\* the loop test fails: generate_random_walls and right_click return
GenReturn ==
    /\ pc = "gen"
    /\ ~(placed < wall_count)
    /\ pc' = "idle"
    /\ placed' = 0
    /\ maze_at_call' = EmptyMaze
    /\ UNCHANGED <<maze, start, end, out, frame>>

\* reset_maze without `self.end = None`
reset_maze_KeepsEnd ==
    /\ pc = "idle"
    /\ maze' = EmptyMaze
    /\ start' = None
    /\ UNCHANGED end
    /\ out' = NoOut
    /\ UNCHANGED <<pc, placed, maze_at_call, frame>>

reset_maze ==
    /\ pc = "idle"
    /\ maze' = EmptyMaze
    /\ start' = None
    /\ end' = None
    /\ out' = NoOut
    /\ UNCHANGED <<pc, placed, maze_at_call, frame>>

\* solve_maze without its test of self.start and self.end: missing markers
\* are reported like a search that found nothing
SolveReport_NoGuard(m, s, e) ==
    IF s = None \/ e = None
    THEN [kind |-> "nopath", path |-> <<>>]
    ELSE LET path == dijkstra(m, s, e)
         IN  IF path # None /\ path # <<>>
             THEN [kind |-> "path", path |-> path]
             ELSE [kind |-> "nopath", path |-> <<>>]

\* what solve_maze reports
SolveReport(m, s, e) ==
    IF s = None \/ e = None
    THEN [kind |-> "warning", path |-> <<>>]
    ELSE LET path == dijkstra(m, s, e)
         IN  IF path # None /\ path # <<>>
             THEN [kind |-> "path", path |-> path]
             ELSE [kind |-> "nopath", path |-> <<>>]

\* solve_maze writing the path it found into self.maze
solve_maze_MarksMaze ==
    /\ pc = "idle"
    /\ out' = SolveReport(maze, start, end)
    /\ maze' = [c \in Cells |->
                  IF \E i \in 2 .. Len(out'.path) - 1 : out'.path[i] = c
                  THEN 1 ELSE maze[c]]
    /\ UNCHANGED <<start, end, pc, placed, maze_at_call, frame>>

solve_maze ==
    /\ pc = "idle"
    /\ UNCHANGED <<maze, start, end, pc, placed, maze_at_call, frame>>
    /\ out' = SolveReport(maze, start, end)

Next ==
    \/ \E ex \in ClickX, ey \in ClickY : left_click(ex, ey)
    \/ \E ex \in ClickX, ey \in ClickY : right_click(ex, ey)
    \/ \E r \in 0 .. ROWS - 1, c \in 0 .. COLS - 1 : GenIter(r, c)
    \/ GenReturn
    \/ reset_maze
    \/ solve_maze

Spec == Init /\ [][Next]_vars

\* the generator's loop under the scheduling the random draws give: a draw
\* that places a wall happens eventually while one is possible, and the
\* loop test is evaluated
GenPlace == \E r \in 0 .. ROWS - 1, c \in 0 .. COLS - 1 : GenIter(r, c) /\ placed' # placed

FairSpec == Spec /\ WF_vars(GenPlace) /\ WF_vars(GenReturn)

\* the grid editing handlers under clicks inside and outside the canvas
NextOOB ==
    \/ \E ex \in ClickXAny, ey \in ClickYAny : left_click(ex, ey)
    \/ \E ex \in ClickXAny, ey \in ClickYAny : right_click(ex, ey)
    \/ \E r \in 0 .. ROWS - 1, c \in 0 .. COLS - 1 : GenIter(r, c)
    \/ GenReturn
    \/ reset_maze

SpecOOB == Init /\ [][NextOOB]_vars

----------------------------------------------------------------------------
(* dijkstra called on every grid, start and end, one iteration per step    *)

InitFP ==
    /\ maze \in [Cells -> {0, 1}]
    /\ start \in Cells
    /\ end \in Cells
    /\ pc = "dijkstra"
    /\ placed = 0
    /\ maze_at_call = EmptyMaze
    /\ out = NoOut
    /\ frame = DijkstraEnter(maze, start, end)

DWhile ==
    /\ pc = "dijkstra"
    /\ frame.pc = "while"
    /\ frame' = WhileStep(maze, start, end, frame)
    /\ UNCHANGED <<maze, start, end, pc, placed, maze_at_call, out>>

DAfter ==
    /\ pc = "dijkstra"
    /\ frame.pc = "after"
    /\ frame' = AfterWhile(maze, start, end, frame)
    /\ UNCHANGED <<maze, start, end, pc, placed, maze_at_call, out>>

DWalk ==
    /\ pc = "dijkstra"
    /\ frame.pc = "walk"
    /\ frame' = WalkStep(maze, start, end, frame)
    /\ UNCHANGED <<maze, start, end, pc, placed, maze_at_call, out>>

NextFP == DWhile \/ DAfter \/ DWalk

SpecFP == InitFP /\ [][NextFP]_vars

----------------------------------------------------------------------------
(* Vocabulary of the properties                                            *)

Abs(n) == IF n < 0 THEN -n ELSE n

\* two cells differ by one unit in exactly one of row and column
Adjacent(a, b) == Abs(a[1] - b[1]) + Abs(a[2] - b[2]) = 1

\* the open cells next to a cell of the set R, as a set written out
Around(m, R) ==
    UNION {{n \in {<<c[1] - 1, c[2]>>, <<c[1] + 1, c[2]>>,
                   <<c[1], c[2] - 1>>, <<c[1], c[2] + 1>>} :
                n \in Cells /\ Adjacent(c, n) /\ m[n] = 0} : c \in R}

RECURSIVE Grow(_, _, _)
Grow(m, R, k) == IF k = 0 THEN R ELSE Grow(m, R \cup Around(m, R), k - 1)

\* the cells a walk of at most k steps through open cells reaches from s
ReachWithin(m, s, k) == Grow(m, IF m[s] = 0 THEN {s} ELSE {}, k)

Reachable(m, s, e) == e \in ReachWithin(m, s, ROWS * COLS)

\* the least number of steps of a walk from s to e through open cells
MinSteps(m, s, e) ==
    CHOOSE k \in 0 .. ROWS * COLS :
        /\ e \in ReachWithin(m, s, k)
        /\ \A j \in 0 .. k - 1 : e \notin ReachWithin(m, s, j)

Returned == pc = "dijkstra" /\ frame.pc = "returned"

\* the cells the running generator has blocked since it was called
NewlyBlocked == {c \in Cells : maze_at_call[c] = 0 /\ maze[c] = 1}

----------------------------------------------------------------------------
(* Properties                                                              *)

\* C1: when dijkstra is called with start open and returns a path, the path
\* has exactly 1 + (the least number of 4-adjacent steps through open cells
\* from start to end) coordinates: no shorter walkable path exists.
C1_PathIsShortest ==
    (Returned /\ maze[start] = 0 /\ frame.ret # None) =>
        /\ Reachable(maze, start, end)
        /\ Len(frame.ret) = 1 + MinSteps(maze, start, end)

\* a returned path of three cells whose other route is closed by a wall
C1_Witness ==
    /\ Returned /\ maze[start] = 0 /\ frame.ret # None
    /\ Len(frame.ret) = 3
    /\ \E c \in Cells : maze[c] = 1 /\ Adjacent(c, start) /\ Adjacent(c, end)

\* C2: a marker never sits on a wall: whenever Start (End) is set, its cell
\* is open.
C2_MarkersAreOpen ==
    /\ start # None => maze[start] = 0
    /\ end # None => maze[end] = 0

\* C3: the wall generator always terminates: once generate_random_walls is
\* running, it returns.
C3_GeneratorTerminates == (pc = "gen") ~> (pc = "idle")

\* C4: every coordinate of the path a solve returns, its first and last
\* included, is open in the grid the solve used.
C4_PathCellsOpen ==
    out.kind = "path" => \A i \in 1 .. Len(out.path) : maze[out.path[i]] = 0

\* C5: a returned path starts at start, ends at end, and each consecutive
\* pair of its coordinates is in bounds and 4-adjacent.
C5_PathIsConnected ==
    (Returned /\ frame.ret # None) =>
        LET p == frame.ret
        IN  /\ Len(p) >= 1
            /\ p[1] = start
            /\ p[Len(p)] = end
            /\ \A i \in 1 .. Len(p) : p[i] \in Cells
            /\ \A i \in 1 .. Len(p) - 1 : Adjacent(p[i], p[i + 1])

\* a returned path with a cell between start and end
C5_Witness == Returned /\ frame.ret # None /\ Len(frame.ret) >= 3

\* C6: with start open, dijkstra returns None exactly when end cannot be
\* reached from start through open cells; in particular it returns None when
\* start # end and every in-bounds neighbour of end is a wall.
C6_AbsentIffUnreachable ==
    (Returned /\ maze[start] = 0) =>
        /\ (frame.ret = None) <=> ~Reachable(maze, start, end)
        /\ (start # end /\ \A n \in Cells : Adjacent(n, end) => maze[n] = 1)
               => frame.ret = None

\* an open end, walled in, reported unreachable
C6_Witness ==
    /\ Returned /\ maze[start] = 0 /\ maze[end] = 0 /\ start # end
    /\ \A n \in Cells : Adjacent(n, end) => maze[n] = 1
    /\ frame.ret = None

\* C7: between two Resets the generator runs exactly once, in the step in
\* which Start becomes set: a step calls the generator if and only if it
\* sets Start, and a set Start changes only by being unset together with
\* the whole grid (Reset).
C7_GeneratorOncePerStart ==
    [][ /\ (pc # "gen" /\ pc' = "gen") <=> (start = None /\ start' # None)
        /\ (start # None /\ start' # start) =>
               (start' = None /\ end' = None /\ maze' = EmptyMaze)
      ]_vars

\* the generator has run and later clicks have set End and added a wall
C7_Witness ==
    /\ pc = "idle" /\ start # None /\ end # None
    /\ Cardinality({c \in Cells : maze[c] = 1}) > wall_count

\* C8: when a run of the generator completes, exactly wall_count cells that
\* were open before the run are walls, none of them is Start or End, and
\* every wall from before the run is still a wall.
C8_GeneratorPlacesWallCount ==
    (pc = "gen" /\ ~(placed < wall_count)) =>
        /\ Cardinality(NewlyBlocked) = wall_count
        /\ start \notin NewlyBlocked
        /\ end \notin NewlyBlocked
        /\ \A c \in Cells : maze_at_call[c] = 1 => maze[c] = 1

\* a completed run on a grid that already had a wall
C8_Witness ==
    /\ pc = "gen" /\ placed = wall_count
    /\ \E c \in Cells : maze_at_call[c] = 1

\* C9: a left click on cell c turns c into a wall if c is open and is
\* neither Start nor End, and otherwise changes nothing; Start, End and
\* every other cell are unchanged in all cases.
C9_LeftClickFrame ==
    [][ \A ex \in ClickX, ey \in ClickY :
          left_click(ex, ey) =>
            LET c == <<ey \div CELL_SIZE, ex \div CELL_SIZE>>
            IN  /\ start' = start
                /\ end' = end
                /\ \A k \in Cells \ {c} : maze'[k] = maze[k]
                /\ IF maze[c] = 0 /\ c # start /\ c # end
                   THEN maze'[c] = 1
                   ELSE maze' = maze
      ]_vars

\* Start and End are set and open, and a left click has added a wall
C9_Witness ==
    /\ pc = "idle" /\ start # None /\ end # None
    /\ maze[start] = 0 /\ maze[end] = 0
    /\ Cardinality({c \in Cells : maze[c] = 1}) > wall_count

\* C10: if End is set then Start is set and differs from it; End becomes
\* set only in a step taken with Start set and End unset, to a coordinate
\* other than Start.
C10_EndAfterStart ==
    /\ [](end # None => (start # None /\ end # start))
    /\ [][ (end' # end /\ end' # None) =>
               (start # None /\ end = None /\ end' # start /\ start' = start)
         ]_vars

C10_Witness == end # None /\ pc = "idle"

\* C11: once Start and End are both set, only Reset changes a marker: every
\* other step leaves both as they were; and a set Start is changed by no
\* step but Reset.
C11_MarkersImmutable ==
    [][ /\ (start # None /\ end # None /\ <<start, end>>' # <<start, end>>) =>
               (start' = None /\ end' = None /\ maze' = EmptyMaze)
        /\ (start # None /\ start' # start) => start' = None
      ]_vars

\* both markers set, and a solve has run on them
C11_Witness == start # None /\ end # None /\ out.kind = "path"

\* C12: Reset, taken in any state, yields exactly the initial state: every
\* cell open, Start and End unset, and every other variable as after
\* construction, so the next right click sets Start and calls the generator.
C12_ResetIsInit ==
    [][ reset_maze =>
          /\ maze' = EmptyMaze /\ start' = None /\ end' = None
          /\ pc' = "idle" /\ placed' = 0 /\ maze_at_call' = EmptyMaze
          /\ out' = NoOut /\ frame' = NoFrame
      ]_vars

\* a state Reset has work to do in: markers set, a wall, a path reported
C12_Witness ==
    /\ pc = "idle" /\ start # None /\ end # None
    /\ \E c \in Cells : maze[c] = 1
    /\ out.kind = "path"

\* C13: a solve asked for while Start or End is unset reports the warning,
\* never "no path" or a path, and leaves cells, Start and End unchanged;
\* the warning is reported in no other case.
C13_SolveNeedsMarkers ==
    /\ [](out.kind = "warning" <=>
              (out.kind # "none" /\ (start = None \/ end = None)))
    /\ [][ ((start = None \/ end = None) /\ solve_maze) =>
               (out'.kind = "warning" /\ UNCHANGED <<maze, start, end>>)
         ]_vars

\* the warning shown with Start set and End unset
C13_Witness == out.kind = "warning" /\ start # None /\ end = None

\* C17: a solve leaves cells, Start and End exactly as it found them,
\* whether it reports a path or none.
C17_SolveReadsOnly ==
    [][ solve_maze => UNCHANGED <<maze, start, end, pc>> ]_vars

\* a solve has reported a path of at least three cells
C17_Witness == out.kind = "path" /\ Len(out.path) >= 3

\* C14: a wall click or a start/end click whose row is outside 0 .. ROWS-1
\* or whose column is outside 0 .. COLS-1 is rejected whole: it leaves
\* cells, Start and End unchanged.
C14_OutOfBoundsRejected ==
    [][ \A ex \in ClickXAny, ey \in ClickYAny :
          (EventCell(ex, ey) \notin Cells
               /\ (left_click(ex, ey) \/ right_click(ex, ey)))
            => UNCHANGED <<maze, start, end>>
      ]_vars

\* C15: on a grid without walls dijkstra returns, for every start and end,
\* a path of exactly |start.row - end.row| + |start.col - end.col| + 1
\* coordinates.
C15_ManhattanOnEmptyGrid ==
    (Returned /\ maze = EmptyMaze) =>
        /\ frame.ret # None
        /\ Len(frame.ret) = Abs(start[1] - end[1]) + Abs(start[2] - end[2]) + 1

\* start and end in opposite corners of the empty grid
C15_Witness ==
    /\ Returned /\ maze = EmptyMaze
    /\ Abs(start[1] - end[1]) = ROWS - 1 /\ Abs(start[2] - end[2]) = COLS - 1

\* C16: dijkstra called with start = end = c returns the one-cell path <<c>>
\* on every grid, whatever the state of c and of its neighbours.
C16_SameCellPath == (Returned /\ start = end) => frame.ret = <<start>>

\* start = end walled in on all sides
C16_Witness ==
    /\ Returned /\ start = end
    /\ \A n \in Cells : Adjacent(n, start) => maze[n] = 1

\* C18: no stale entry is expanded: every entry of pq carries the distance
\* the dist map records for its cell, the entry popped last (d, (x, y)) has
\* d = dist[x][y], and the popped distances never decrease.
C18_NoStaleEntries ==
    /\ []((pc = "dijkstra" /\ frame.pc \in {"while", "after"}) =>
            /\ \A i \in 1 .. Len(frame.pq) :
                   frame.pq[i][1] = frame.dist[frame.pq[i][2]]
            /\ frame.xy # None => frame.d = frame.dist[frame.xy])
    /\ [][ (pc = "dijkstra" /\ frame.pc = "while" /\ frame.pq # <<>>) =>
               frame'.d >= frame.d ]_vars

\* two entries wait in pq after a cell at distance 1 or more was expanded
C18_Witness ==
    /\ pc = "dijkstra" /\ frame.pc = "while"
    /\ frame.d >= 1 /\ Len(frame.pq) >= 1 /\ frame.pops >= 2

\* what is left of a call: a number that is 0 once the call has returned
StepsLeft(f, e) ==
    CASE f.pc = "while"    -> 2 * ROWS * COLS + 3 - f.pops
      [] f.pc = "after"    -> ROWS * COLS + 2
      [] f.pc = "walk"     -> 1 + f.dist[e] - Len(f.path)
      [] f.pc = "returned" -> 0

\* C19: every call of dijkstra returns: each step of the call lowers a
\* number that is never negative; on the way each cell is pushed at most
\* once, at most ROWS*COLS entries are popped, and the walk back from end
\* takes exactly dist[end] predecessor steps.
C19_DijkstraTerminates ==
    /\ [](pc = "dijkstra" =>
            /\ StepsLeft(frame, end) >= 0
            /\ \A c \in Cells : frame.pushed[c] <= 1
            /\ frame.pops <= ROWS * COLS
            /\ frame.pc = "walk" => Len(frame.path) <= frame.dist[end]
            /\ (frame.pc = "returned" /\ frame.ret # None) =>
                   Len(frame.ret) - 1 = frame.dist[end])
    /\ [][ pc = "dijkstra" => StepsLeft(frame', end') < StepsLeft(frame, end) ]_vars

\* a call that popped every cell of the grid and walked back two steps
C19_Witness ==
    /\ Returned /\ frame.ret # None
    /\ frame.pops = ROWS * COLS /\ Len(frame.ret) >= 3

\* C20: throughout a call, start has distance 0 and no predecessor, and
\* every other cell with a finite distance has a predecessor that is a cell
\* 4-adjacent to it at distance exactly one less; the walk back from end
\* therefore always stands on a cell.
C20_PredecessorChain ==
    pc = "dijkstra" =>
        /\ frame.dist[start] = 0
        /\ frame.prev[start] = None
        /\ \A c \in Cells \ {start} :
               frame.dist[c] # INF =>
                   /\ frame.prev[c] \in Cells
                   /\ Adjacent(frame.prev[c], c)
                   /\ frame.dist[frame.prev[c]] = frame.dist[c] - 1
        /\ frame.pc = "walk" => frame.xy \in Cells

\* the walk back standing on a cell between end and start
C20_Witness ==
    /\ pc = "dijkstra" /\ frame.pc = "walk"
    /\ frame.xy # end /\ frame.xy # start

====
